---- MODULE Spec2Model ----
(***************************************************************************)
(* word_crawl: main() of src/word_crawl.py as a state machine.             *)
(*                                                                         *)
(* A Python str is a sequence of symbols.  "." and "/" are symbols of      *)
(* their own, so that os.path.join, os.path.splitext, str.startswith and   *)
(* the whitespace collapse act on them as they do on characters; every     *)
(* other symbol ("txt", "cat", ...) stands for a run without dot, slash    *)
(* or whitespace.  A list is a sequence of such values.                    *)
(***************************************************************************)
EXTENDS Naturals, Sequences, FiniteSets, TLC

(***************************************************************************)
(* Bounds of the model                                                     *)
(***************************************************************************)
\* how many times the caller invokes main in one process
MaxRuns == 2
\* how many files an outside process may delete while main runs
MaxVanish == 1

(***************************************************************************)
(* Sequences, as Python's list operations use them                         *)
(***************************************************************************)
Range(s) == {s[i] : i \in 1..Len(s)}

\* x in lst
In(x, s) == \E i \in 1..Len(s) : s[i] = x

\* lst.remove(x): drops the first occurrence (callers only remove members)
ListRemove(s, x) ==
    LET i == CHOOSE k \in 1..Len(s) : s[k] = x /\ \A j \in 1..(k - 1) : s[j] # x
    IN  SubSeq(s, 1, i - 1) \o SubSeq(s, i + 1, Len(s))

NoDuplicates(s) == \A i, j \in 1..Len(s) : s[i] = s[j] => i = j

StartsWith(s, pre) == Len(pre) <= Len(s) /\ SubSeq(s, 1, Len(pre)) = pre

RECURSIVE Concat(_)
Concat(ss) == IF ss = <<>> THEN <<>> ELSE Head(ss) \o Concat(Tail(ss))

(***************************************************************************)
(* Paths: os.path.join, os.path.expanduser, path resolution                *)
(***************************************************************************)
\* os.getcwd(): the process runs in /w
Cwd == <<"/", "w">>
\* $HOME, what os.path.expanduser puts for a leading ~
Home == <<"/", "w">>

\* os.path.join(a, b) on POSIX
Join(a, b) ==
    IF b # <<>> /\ b[1] = "/" THEN b
    ELSE IF a = <<>> \/ a[Len(a)] = "/" THEN a \o b
    ELSE a \o <<"/">> \o b

\* os.path.expanduser(p): "~" or "~/..." gets $HOME for the tilde
Expanduser(p) ==
    IF p # <<>> /\ p[1] = "~" /\ (Len(p) = 1 \/ p[2] = "/")
    THEN Home \o Tail(p)
    ELSE p

\* p split at "/" into components
RECURSIVE SplitSep(_, _, _)
SplitSep(p, cur, acc) ==
    IF p = <<>> THEN Append(acc, cur)
    ELSE IF Head(p) = "/" THEN SplitSep(Tail(p), <<>>, Append(acc, cur))
    ELSE SplitSep(Tail(p), Append(cur, Head(p)), acc)

IsRealComponent(c) == c # <<>> /\ c # <<".">>

\* The node of the tree a path string names, as the kernel resolves it: relative
\* paths start at the working directory, "." and empty components are skipped.
Resolve(p) ==
    LET abs == IF p # <<>> /\ p[1] = "/" THEN p ELSE Join(Cwd, p)
    IN  SelectSeq(SplitSep(abs, <<>>, <<>>), IsRealComponent)

(***************************************************************************)
(* The file tree.  Directories are fixed; each file slot holds a kind of   *)
(* file, or is absent.                                                     *)
(*     /w/a.txt  /w/d.py  /w/.git/b.txt  /w/sub/.txt  /w/sub/c  /w/e/     *)
(***************************************************************************)
NameW == <<"w">>
NameGit == <<".", "git">>
NameSub == <<"sub">>
NameA == <<"a", ".", "txt">>
NameD == <<"d", ".", "py">>
NameB == <<"b", ".", "txt">>
NameDot == <<".", "txt">>
NameC == <<"c">>
NameEmpty == <<"e">>

DirW == <<NameW>>
DirGit == <<NameW, NameGit>>
DirSub == <<NameW, NameSub>>
FileA == <<NameW, NameA>>
FileD == <<NameW, NameD>>
FileB == <<NameW, NameGit, NameB>>
FileDot == <<NameW, NameSub, NameDot>>
FileC == <<NameW, NameSub, NameC>>

DirEmpty == <<NameW, NameEmpty>>
DirNodes == {DirW, DirGit, DirSub, DirEmpty}
FileNodes == {FileA, FileD, FileB, FileDot, FileC}

\* os.scandir order of each directory (stable while the tree is unchanged)
Entries(d) ==
    IF d = DirW THEN <<NameA, NameGit, NameD, NameSub, NameEmpty>>
    ELSE IF d = DirGit THEN <<NameB>>
    ELSE IF d = DirSub THEN <<NameDot, NameC>>
    ELSE <<>>

(***************************************************************************)
(* Kinds of file: what the classifier says of it, whether it can be        *)
(* opened, whether it decodes, and its text.                               *)
(***************************************************************************)
Kinds == {"absent", "cat3", "cat1", "dog", "foobar", "binary", "bincat",
          "garbled", "locked"}

\* file content as read by f1.read()
Content(k) ==
    IF k = "cat3" THEN <<"cat", " ", "dog", " ", "Cat", "\n", "cat">>
    ELSE IF k = "cat1" THEN <<"cat">>
    ELSE IF k = "dog" THEN <<"dog">>
    ELSE IF k = "foobar" THEN <<"foo", "\n", "\n", " ", " ", "bar">>
    ELSE IF k = "bincat" THEN <<"cat", "\t", "(">>
    ELSE <<>>

\* binaryornot's verdict on the file's first bytes
LooksBinary(k) == k \in {"binary", "bincat"}
\* read() raises UnicodeDecodeError
Undecodable(k) == k \in {"binary", "garbled"}
\* open() is refused (no read permission)
Unreadable(k) == k = "locked"

(***************************************************************************)
(* os.walk with the loop body of lines 203-221                             *)
(***************************************************************************)
\* the names in directory node d that are files now
FilesOf(tree, d) ==
    LET IsFileName(n) == Append(d, n) \in FileNodes /\ tree[Append(d, n)] # "absent"
    IN  SelectSeq(Entries(d), IsFileName)

\* the names in directory node d that are directories
SubDirsOf(d) ==
    LET IsDirName(n) == Append(d, n) \in DirNodes
    IN  SelectSeq(Entries(d), IsDirName)

\* os.path.isfile(p), os.path.isdir(p)
IsFile(tree, p) == Resolve(p) \in FileNodes /\ tree[Resolve(p)] # "absent"
IsDir(p) == Resolve(p) \in DirNodes

\* sub_dirs[:] = [d for d in sub_dirs if d not in excluded_subdirectories]
PruneSubDirs(sub_dirs, excluded) ==
    LET Kept(d) == ~In(d, excluded)
    IN  SelectSeq(sub_dirs, Kept)

\* (a faulty variant: line 208 binds a new list, "sub_dirs = [...]", and os.walk
\* descends into every subdirectory)
RECURSIVE WalkEverywhere(_, _, _)
WalkEverywhere(tree, dir_path, excluded) ==
    LET d == Resolve(dir_path)
        Below(i) == WalkEverywhere(tree, Join(dir_path, SubDirsOf(d)[i]), excluded)
    IN  <<[dir_path |-> dir_path, sub_dirs |-> SubDirsOf(d), files |-> FilesOf(tree, d)]>>
        \o Concat([i \in 1..Len(SubDirsOf(d)) |-> Below(i)])

\* The (dir_path, sub_dirs_before_prune, files) triples os.walk yields below
\* dir_path, top-down: it descends only into the names the body left in sub_dirs.
RECURSIVE WalkTriples(_, _, _)
WalkTriples(tree, dir_path, excluded) ==
    LET d == Resolve(dir_path)
        Below(i) == WalkTriples(tree, Join(dir_path, PruneSubDirs(SubDirsOf(d), excluded)[i]), excluded)
        kept == PruneSubDirs(SubDirsOf(d), excluded)
    IN  <<[dir_path |-> dir_path, sub_dirs |-> SubDirsOf(d), files |-> FilesOf(tree, d)]>>
        \o Concat([i \in 1..Len(kept) |-> Below(i)])

\* (a faulty variant: the "not in" test of line 220 left out)
AddEveryFile(all, dir_path, files) ==
    all \o [i \in 1..Len(files) |-> Join(dir_path, files[i])]

\* for f in files: long_file_name = join(dir_path, f); append if not yet in the list
RECURSIVE AddFiles(_, _, _)
AddFiles(all, dir_path, files) ==
    IF files = <<>> THEN all
    ELSE LET long_file_name == Join(dir_path, Head(files))
         IN  AddFiles(IF In(long_file_name, all) THEN all ELSE Append(all, long_file_name),
                      dir_path, Tail(files))

RECURSIVE AddTriples(_, _)
AddTriples(all, triples) ==
    IF triples = <<>> THEN all
    ELSE AddTriples(AddFiles(all, Head(triples).dir_path, Head(triples).files), Tail(triples))

\* the subdirectories the body dropped while walking p (reported at lines 211-214)
DroppedBy(triples, excluded) ==
    UNION {{Join(triples[i].dir_path, triples[i].sub_dirs[j]) :
               j \in {k \in 1..Len(triples[i].sub_dirs) :
                         ~In(triples[i].sub_dirs[k], PruneSubDirs(triples[i].sub_dirs, excluded))}} :
           i \in 1..Len(triples)}

\* one turn of "for p in search_paths" (lines 193-221): the list afterwards
WalkOne(tree, all, p, excluded) ==
    IF IsFile(tree, p) THEN (IF In(p, all) THEN all ELSE Append(all, p))
    ELSE IF IsDir(p) THEN AddTriples(all, WalkTriples(tree, p, excluded))
    ELSE all

(***************************************************************************)
(* Extensions: os.path.splitext and the normalisation of lines 165-176     *)
(***************************************************************************)
\* str.rfind, 1-based, 0 when absent
RFind(p, x) ==
    IF \E i \in 1..Len(p) : p[i] = x
    THEN CHOOSE i \in 1..Len(p) : p[i] = x /\ \A j \in (i + 1)..Len(p) : p[j] # x
    ELSE 0

\* os.path.splitext(p)[-1]: from the last dot of the last component, unless
\* only dots lead up to it
Splitext(p) ==
    LET sepIndex == RFind(p, "/")
        dotIndex == RFind(p, ".")
    IN  IF dotIndex > sepIndex /\ \E k \in (sepIndex + 1)..(dotIndex - 1) : p[k] # "."
        THEN SubSeq(p, dotIndex, Len(p))
        ELSE <<>>

\* for item in lst.copy(): drop '', replace a dotless item by "." + item
RECURSIVE NormalizeLoop(_, _)
NormalizeLoop(items, lst) ==
    IF items = <<>> THEN lst
    ELSE LET item == Head(items)
         IN  IF item = <<>> THEN NormalizeLoop(Tail(items), ListRemove(lst, item))
             ELSE IF ~StartsWith(item, <<".">>)
                  THEN NormalizeLoop(Tail(items), Append(ListRemove(lst, item), <<".">> \o item))
                  ELSE NormalizeLoop(Tail(items), lst)

\* (a faulty variant: the lists used as given)
KeepAsGiven(lst) == lst
NormalizeExtensions(lst) == NormalizeLoop(lst, lst)

\* lines 231-252: the whitelist, else the blacklist, else everything
FilterByExtension(all, included, excluded) ==
    LET Listed(f) == In(Splitext(f), included)
        NotListed(f) == ~In(Splitext(f), excluded)
    IN  IF Len(included) > 0 THEN SelectSeq(all, Listed)
        ELSE IF Len(excluded) > 0 THEN SelectSeq(all, NotListed)
        ELSE all

(***************************************************************************)
(* The pattern: re.escape, re.compile, re.finditer with re.IGNORECASE, for *)
(* patterns of literal symbols and the unbalanced "(".                     *)
(***************************************************************************)
SpecialSymbols == {"(", " ", "\t", "\n", ".", "\\"}
IsSpace(x) == x \in {" ", "\t", "\n"}

\* re.escape: a backslash before every special symbol
RECURSIVE Escape(_)
Escape(p) ==
    IF p = <<>> THEN <<>>
    ELSE (IF Head(p) \in SpecialSymbols THEN <<"\\", Head(p)>> ELSE <<Head(p)>>)
         \o Escape(Tail(p))

\* re.compile succeeds: every "(" is escaped (nothing closes one here) and no
\* backslash ends the pattern
RECURSIVE Compiles(_)
Compiles(p) ==
    IF p = <<>> THEN TRUE
    ELSE IF Head(p) = "\\" THEN Len(p) >= 2 /\ Compiles(Tail(Tail(p)))
    ELSE Head(p) # "(" /\ Compiles(Tail(p))

\* the symbols a compiled pattern matches, one after the other
RECURSIVE Literals(_)
Literals(p) ==
    IF p = <<>> THEN <<>>
    ELSE IF Head(p) = "\\" THEN <<p[2]>> \o Literals(Tail(Tail(p)))
    ELSE <<Head(p)>> \o Literals(Tail(p))

\* re.IGNORECASE
Fold(x) == IF x = "Cat" THEN "cat" ELSE x

\* the pattern matches text at position i
MatchesAt(lits, text, i) ==
    /\ i + Len(lits) - 1 <= Len(text)
    /\ \A k \in 1..Len(lits) : Fold(text[i + k - 1]) = Fold(lits[k])

\* [r.group(0) for r in re.finditer(regex, text)]: left to right, not overlapping
RECURSIVE FindFrom(_, _, _)
FindFrom(lits, text, i) ==
    IF i > Len(text) THEN <<>>
    ELSE IF MatchesAt(lits, text, i)
         THEN <<SubSeq(text, i, i + Len(lits) - 1)>> \o FindFrom(lits, text, i + Len(lits))
         ELSE FindFrom(lits, text, i + 1)

Finditer(regex, text) == FindFrom(Literals(regex), text, 1)

\* re.sub("\n", " ", s)
NewlinesToSpaces(s) == [i \in 1..Len(s) |-> IF s[i] = "\n" THEN " " ELSE s[i]]

\* re.sub("\s+", " ", s)
RECURSIVE CollapseRuns(_, _)
CollapseRuns(s, inRun) ==
    IF s = <<>> THEN <<>>
    ELSE IF IsSpace(Head(s))
         THEN (IF inRun THEN <<>> ELSE <<" ">>) \o CollapseRuns(Tail(s), TRUE)
         ELSE <<Head(s)>> \o CollapseRuns(Tail(s), FALSE)

\* (a faulty variant: line 320 left out, only the newlines are replaced)
NewlinesOnly(s) == NewlinesToSpaces(s)
\* lines 315-320
CollapseWhitespace(s) == CollapseRuns(NewlinesToSpaces(s), FALSE)

\* lines 342-350: unique_list from running_list
RECURSIVE UniqueLoop(_, _)
UniqueLoop(matches, unique_list) ==
    IF matches = <<>> THEN unique_list
    ELSE UniqueLoop(Tail(matches),
                    IF In(Head(matches), unique_list) THEN unique_list
                    ELSE Append(unique_list, Head(matches)))

\* (a faulty variant: the "not in" test of line 349 left out)
UniqueKeepsAll(running_list) == running_list
UniqueList(running_list) == UniqueLoop(running_list, <<>>)

\* lines 362-364
ResultEntry(f, regex_pattern, running_list) ==
    [file_name |-> f, pattern |-> regex_pattern,
     match_count |-> Len(running_list),
     unique_match_count |-> Len(UniqueList(running_list)),
     matched_strings |-> running_list,
     unique_matched_strings |-> UniqueList(running_list)]

(***************************************************************************)
(* The arguments of a call.  A list-like argument is a tagged value:       *)
(* t = "none" (None), "list", "str", or "default" (the argument is left    *)
(* out and the def's own default object is used).                          *)
(***************************************************************************)
None == [t |-> "none", v |-> <<>>]
Omitted == [t |-> "default", v |-> <<>>]
List(l) == [t |-> "list", v |-> l]
Str(x) == [t |-> "str", v |-> x]

\* a bool passed where the tagged values are used
Bool(name) == [t |-> "bool", v |-> <<name>>]

\* bool(x) of a list-like argument
Truthy(a) == a.t \in {"list", "str"} /\ a.v # <<>>

Dot == <<".">>
PathW == <<"/", "w">>
PathSub == <<"sub">>
PathDotSub == <<".", "/", "sub">>
PathWSub == <<"/", "w", "/", "sub">>
PathHomeSub == <<"~", "/", "sub">>
PathGit == <<".", "git">>
PathB == <<".", "git", "/", "b", ".", "txt">>
PathA == <<"a", ".", "txt">>
PathE == <<"e">>
PathNope == <<"nope">>

SearchPathArgs ==
    {None, List(<<>>), Str(PathSub), Str(<<"verbose">>),
     List(<<Dot>>), List(<<PathW>>), List(<<Dot, PathW>>),
     List(<<Dot, PathGit>>), List(<<Dot, PathB>>), List(<<PathSub, PathDotSub>>),
     List(<<PathA, PathA>>), List(<<PathW, PathWSub>>), List(<<PathHomeSub, PathSub>>),
     List(<<PathE>>), List(<<Dot, PathNope>>)}

ExcludedDirArgs ==
    {Omitted, None, List(<<NameSub>>), List(<<NameGit, NameSub>>)}

\* (included_extensions, excluded_extensions)
ExtensionArgs ==
    {<<None, None>>, <<List(<<>>), List(<<>>)>>,
     <<List(<<<<".", "txt">>>>), None>>,
     <<List(<<<<"txt">>, <<>>>>), None>>,
     <<List(<<<<>>>>), None>>,
     <<List(<<<<"py">>, <<"py">>>>), None>>,
     <<None, List(<<<<".", "txt">>>>)>>,
     <<None, List(<<<<"py">>, <<".", "txt">>, <<"py">>>>)>>,
     <<None, List(<<<<>>>>)>>,
     <<List(<<<<".", "txt">>>>), List(<<<<"py">>>>)>>,
     <<List(<<<<>>>>), List(<<<<"py">>>>)>>}

PatternArgs == {<<"cat">>, <<"foo", " ", "bar">>, <<"(">>, <<>>}

\* print_json: a bool, None, a str, a str that is the name of a parameter
PrintJsonArgs ==
    {Bool("False"), Bool("True"), None, Str(<<"yes">>), Str(<<"verbose">>)}

BaseArgs ==
    [regex_pattern |-> <<"cat">>, search_paths |-> List(<<Dot>>),
     excluded_subdirectories |-> Omitted,
     excluded_extensions |-> None, included_extensions |-> None,
     include_binary_files |-> FALSE, collapse_whitespace |-> TRUE,
     print_json |-> Bool("False"), escape_pattern |-> FALSE]

BaseTree ==
    [n \in FileNodes |->
        IF n = FileA THEN "cat3" ELSE IF n = FileD THEN "foobar"
        ELSE IF n = FileC THEN "bincat" ELSE "cat1"]

\* calls that vary where to look, on trees with and without /w/a.txt
WalkScenarios ==
    {[args |-> [BaseArgs EXCEPT !.search_paths = sp, !.excluded_subdirectories = ex],
      tree |-> [BaseTree EXCEPT ![FileA] = a]] :
        sp \in SearchPathArgs, ex \in ExcludedDirArgs, a \in {"cat3", "absent"}}

\* calls that vary the extension lists
ExtensionScenarios ==
    {[args |-> [BaseArgs EXCEPT !.included_extensions = e[1], !.excluded_extensions = e[2],
                                !.include_binary_files = b],
      tree |-> BaseTree] :
        e \in ExtensionArgs, b \in BOOLEAN}

\* calls that vary the pattern and the flags, on trees that vary the files' kinds
ContentScenarios ==
    {[args |-> [BaseArgs EXCEPT !.regex_pattern = p, !.escape_pattern = z,
                                !.collapse_whitespace = w, !.include_binary_files = b],
      tree |-> [BaseTree EXCEPT ![FileD] = d, ![FileC] = c]] :
        p \in PatternArgs, z \in BOOLEAN, w \in BOOLEAN, b \in BOOLEAN,
        d \in {"foobar", "binary", "locked"}, c \in {"bincat", "garbled", "dog"}}

\* calls that pass values of other types for a list and for a flag
TypeScenarios ==
    {[args |-> [BaseArgs EXCEPT !.print_json = pj, !.search_paths = sp,
                                !.excluded_subdirectories = ex],
      tree |-> BaseTree] :
        pj \in PrintJsonArgs,
        sp \in {List(<<Dot>>), Str(PathSub), Str(<<"verbose">>)},
        ex \in {Omitted, Str(NameSub), Str(<<"kwargs">>)}}

Scenarios ==
    WalkScenarios \cup ExtensionScenarios \cup ContentScenarios \cup TypeScenarios

(***************************************************************************)
(* State                                                                   *)
(***************************************************************************)
VARIABLES
    fs,                 \* the file tree: kind of each file slot
    vanished,           \* files deleted by others since the process started
    caller,             \* the argument objects the caller holds and passes
    given,              \* their values when the process started
    default_excluded_subdirectories,  \* the def's default list object (line 18)
    run,                \* calls of main so far
    pc,                 \* where main is: idle, walk, gate, search, returned, raised
    error,              \* the exception that left main, "" if none
    ret_val,            \* what main returned
    previous,           \* how the call before ended
    regex_pattern, search_paths, excluded_subdirectories,
    included_extensions, excluded_extensions,
    all_files_beneath_paths, files_to_inspect,
    same_list,          \* files_to_inspect is the list all_files_beneath_paths (line 252)
    path_i,             \* position of "for p in search_paths"
    gate_i,             \* index of the reversed() iterator of line 263
    search_i,           \* position of "for f in files_to_inspect" of line 295
    all_results,
    pruned,             \* subdirectories the walker dropped in this call
    classified,         \* <<file, verdict>> for every is_binary call in this call
    gate_seen,          \* the files is_binary was called on, in the order of the calls
    opened,             \* files this call tried to open
    searched,           \* <<file, text>> for every text the pattern was run on
    candidates,         \* all_files_beneath_paths as the walker left it
    filtered            \* files_to_inspect as the extension filter left it

vars == <<fs, vanished, caller, given, default_excluded_subdirectories, run, pc,
          error, ret_val, previous, regex_pattern, search_paths,
          excluded_subdirectories, included_extensions, excluded_extensions,
          all_files_beneath_paths, files_to_inspect, same_list, path_i, gate_i,
          search_i, all_results, pruned, classified, gate_seen, opened, searched,
          candidates, filtered>>

locals == <<regex_pattern, search_paths, excluded_subdirectories,
            included_extensions, excluded_extensions>>
lists == <<all_files_beneath_paths, files_to_inspect, same_list>>
history == <<pruned, classified, gate_seen, opened, searched, candidates, filtered>>
world == <<fs, vanished>>
objects == <<caller, given, default_excluded_subdirectories>>

NoCall == [pc |-> "none", error |-> "", ret_val |-> <<>>]

Init ==
    /\ \E s \in Scenarios : fs = s.tree /\ caller = s.args /\ given = s.args
    /\ vanished = 0
    /\ default_excluded_subdirectories = <<<<".", "git">>, <<".", "idea">>>>
    /\ run = 1
    /\ pc = "idle"
    /\ error = ""
    /\ ret_val = <<>>
    /\ previous = NoCall
    /\ regex_pattern = <<>>
    /\ search_paths = <<>>
    /\ excluded_subdirectories = <<>>
    /\ included_extensions = <<>>
    /\ excluded_extensions = <<>>
    /\ all_files_beneath_paths = <<>>
    /\ files_to_inspect = <<>>
    /\ same_list = FALSE
    /\ path_i = 1
    /\ gate_i = 0
    /\ search_i = 1
    /\ all_results = <<>>
    /\ pruned = {}
    /\ classified = {}
    /\ gate_seen = <<>>
    /\ opened = {}
    /\ searched = {}
    /\ candidates = <<>>
    /\ filtered = <<>>

(***************************************************************************)
(* Validation and normalisation of the arguments, lines 60-176             *)
(***************************************************************************)
\* prog_vars.keys(): the names of main's parameters
KeyNames ==
    {<<"regex_pattern">>, <<"search_paths">>, <<"excluded_subdirectories">>,
     <<"excluded_extensions">>, <<"included_extensions">>,
     <<"include_binary_files">>, <<"collapse_whitespace">>, <<"print_json">>,
     <<"escape_pattern">>, <<"verbose">>, <<"kwargs">>}

\* Validation #2, lines 75-81: itm is a parameter NAME; it passes the "not in"
\* test only when one of the four values equals that name, and a name is a str,
\* never a list or tuple.
ListValidationRaises(a) ==
    \E k \in KeyNames :
        \E x \in {a.search_paths, a.excluded_subdirectories,
                  a.excluded_extensions, a.included_extensions} :
            x.t = "str" /\ x.v = k

\* Validation #3, lines 85-93: itm is a parameter NAME again; it passes the
\* "not in" test only when one of the three values equals that name, and a name
\* is a str, never a bool.  (include_binary_files and escape_pattern are bools
\* here: no name equals one.)
BoolValidationRaises(a) ==
    \E k \in KeyNames : a.print_json.t = "str" /\ a.print_json.v = k

\* lines 108-109
EffectivePattern(a) ==
    IF a.escape_pattern = TRUE THEN Escape(a.regex_pattern) ELSE a.regex_pattern

\* lines 128-136
SearchPathsOf(a) ==
    LET sp == a.search_paths
        asList == IF ~Truthy(sp) THEN <<Cwd>>
                  ELSE IF sp.t = "str" THEN <<sp.v>>
                  ELSE sp.v
    IN  [i \in 1..Len(asList) |-> Expanduser(asList[i])]

\* lines 146-150
ExcludedSubdirectoriesOf(a, default) ==
    LET ex == a.excluded_subdirectories
    IN  IF ex.t = "default" THEN default
        ELSE IF ex.t = "none" THEN <<>>
        ELSE IF ex.t = "list" THEN ex.v
        ELSE <<ex.v>>

\* lines 158-166: a falsy value becomes [], anything else a new list of strs
ExtensionList(x) == IF Truthy(x) THEN x.v ELSE <<>>

\* (a faulty variant: no validation)
NoValidationError(a, tree) == ""

\* The exception validation ends with, "" if it passes (lines 66-141)
ValidationError(a, tree) ==
    IF a.regex_pattern = <<>> THEN "ValueError"
    ELSE IF ListValidationRaises(a) THEN "TypeError"
    ELSE IF BoolValidationRaises(a) THEN "TypeError"
    ELSE IF Truthy(a.included_extensions) /\ Truthy(a.excluded_extensions) THEN "ValueError"
    ELSE IF ~Compiles(EffectivePattern(a)) THEN "re.error"
    ELSE IF \E i \in 1..Len(SearchPathsOf(a)) :
                ~IsDir(SearchPathsOf(a)[i]) /\ ~IsFile(tree, SearchPathsOf(a)[i])
         THEN "FileNotFoundError"
    ELSE ""

\* (a faulty variant: the loop of lines 169-176 run on the caller's own list)
CallerListMutated(given_list, normalized) == normalized
\* The caller's extension list after lines 165-176: the loop removes from and
\* appends to the new list line 165 built, so the caller's list keeps its value.
CallerListAfter(given_list, normalized) == given_list

Validate ==
    /\ pc = "idle"
    /\ LET err == ValidationError(caller, fs)
           inc == NormalizeExtensions(ExtensionList(caller.included_extensions))
           exc == NormalizeExtensions(ExtensionList(caller.excluded_extensions))
       IN  IF err # ""
           THEN /\ pc' = "raised"
                /\ error' = err
                /\ UNCHANGED <<locals, caller>>
           ELSE /\ pc' = "walk"
                /\ error' = ""
                /\ regex_pattern' = EffectivePattern(caller)
                /\ search_paths' = SearchPathsOf(caller)
                /\ excluded_subdirectories' =
                       ExcludedSubdirectoriesOf(caller, default_excluded_subdirectories)
                /\ included_extensions' = inc
                /\ excluded_extensions' = exc
                /\ caller' =
                     [caller EXCEPT
                        !.included_extensions =
                            IF @.t = "list" THEN List(CallerListAfter(@.v, inc)) ELSE @,
                        !.excluded_extensions =
                            IF @.t = "list" THEN List(CallerListAfter(@.v, exc)) ELSE @]
    /\ UNCHANGED <<world, given, default_excluded_subdirectories, run, ret_val,
                   previous, lists, path_i, gate_i, search_i, all_results, history>>

(***************************************************************************)
(* Path walking, lines 192-221: one turn of "for p in search_paths"        *)
(***************************************************************************)
WalkPath ==
    /\ pc = "walk"
    /\ path_i <= Len(search_paths)
    /\ LET p == search_paths[path_i]
       IN  /\ all_files_beneath_paths' =
                  WalkOne(fs, all_files_beneath_paths, p, excluded_subdirectories)
           /\ pruned' =
                  IF ~IsFile(fs, p) /\ IsDir(p)
                  THEN pruned \cup DroppedBy(WalkTriples(fs, p, excluded_subdirectories),
                                             excluded_subdirectories)
                  ELSE pruned
    /\ path_i' = path_i + 1
    /\ UNCHANGED <<world, objects, run, pc, error, ret_val, previous, locals,
                   files_to_inspect, same_list, gate_i, search_i, all_results,
                   classified, gate_seen, opened, searched, candidates, filtered>>

(***************************************************************************)
(* Extension filter, lines 228-253, and the choice of line 259             *)
(***************************************************************************)
ExtensionFilter ==
    /\ pc = "walk"
    /\ path_i > Len(search_paths)
    /\ files_to_inspect' =
           FilterByExtension(all_files_beneath_paths, included_extensions, excluded_extensions)
    /\ same_list' = (Len(included_extensions) = 0 /\ Len(excluded_extensions) = 0)
    /\ gate_i' = Len(files_to_inspect')
    /\ search_i' = 1
    /\ all_results' = <<>>
    /\ candidates' = all_files_beneath_paths
    /\ filtered' = files_to_inspect'
    /\ pc' = IF caller.include_binary_files = FALSE THEN "gate" ELSE "search"
    /\ UNCHANGED <<world, objects, run, error, ret_val, previous, locals,
                   all_files_beneath_paths, path_i, pruned, classified, gate_seen,
                   opened, searched>>

(***************************************************************************)
(* Binary gate, lines 259-283: one turn of "for f in reversed(...)"        *)
(***************************************************************************)
\* is_binary(filename=f): it opens the file and judges its first bytes
IsBinaryOutcome(tree, f) ==
    LET k == tree[Resolve(f)]
    IN  IF k = "absent" THEN "FileNotFoundError"
        ELSE IF Unreadable(k) THEN "PermissionError"
        ELSE IF LooksBinary(k) THEN "binary"
        ELSE "text"

\* lines 267-278: the list after the body of the loop
\* (a faulty variant: line 271 left out)
GateKeepsBinary(lst, f, verdict) ==
    IF verdict = "FileNotFoundError" THEN ListRemove(lst, f) ELSE lst
\* (a faulty variant: the file is removed by moving the last element into its
\* place, "lst[i] = lst[-1]; lst.pop()")
GateSwapRemove(lst, f, verdict) ==
    LET i == CHOOSE k \in 1..Len(lst) : lst[k] = f
        moved == [lst EXCEPT ![i] = lst[Len(lst)]]
    IN  IF verdict \in {"binary", "FileNotFoundError"}
        THEN SubSeq(moved, 1, Len(lst) - 1)
        ELSE lst
GateBody(lst, f, verdict) ==
    IF verdict \in {"binary", "FileNotFoundError"} THEN ListRemove(lst, f) ELSE lst

\* the exceptions the try of lines 264-278 lets through
GateLetsThrough(verdict) == verdict = "PermissionError"

\* a list reverse iterator yields lst[i] while 0 <= i < len(lst) (here 1-based)
GateStep ==
    /\ pc = "gate"
    /\ gate_i >= 1 /\ gate_i <= Len(files_to_inspect)
    /\ LET f == files_to_inspect[gate_i]
           verdict == IsBinaryOutcome(fs, f)
       IN  /\ classified' = classified \cup {<<f, verdict>>}
           /\ gate_seen' = Append(gate_seen, f)
           /\ IF GateLetsThrough(verdict)
              THEN /\ pc' = "raised"
                   /\ error' = verdict
                   /\ UNCHANGED <<lists, gate_i>>
              ELSE /\ files_to_inspect' = GateBody(files_to_inspect, f, verdict)
                   /\ all_files_beneath_paths' =
                          IF same_list THEN files_to_inspect' ELSE all_files_beneath_paths
                   /\ gate_i' = gate_i - 1
                   /\ UNCHANGED <<pc, error, same_list>>
    /\ UNCHANGED <<world, objects, run, ret_val, previous, locals, path_i, search_i,
                   all_results, pruned, opened, searched, candidates, filtered>>

\* the iterator is exhausted; line 291 compiles the pattern again
GateDone ==
    /\ pc = "gate"
    /\ ~(gate_i >= 1 /\ gate_i <= Len(files_to_inspect))
    /\ pc' = "search"
    /\ UNCHANGED <<world, objects, run, error, ret_val, previous, locals, lists,
                   path_i, gate_i, search_i, all_results, history>>

(***************************************************************************)
(* Search, lines 295-369: one turn of "for f in files_to_inspect"          *)
(***************************************************************************)
\* open(f, 'r') and f1.read()
ReadOutcome(tree, f) ==
    LET k == tree[Resolve(f)]
    IN  IF k = "absent" THEN "FileNotFoundError"
        ELSE IF Unreadable(k) THEN "PermissionError"
        ELSE IF Undecodable(k) THEN "UnicodeDecodeError"
        ELSE "ok"

\* the exceptions the two try blocks of lines 299-312 let through
ReadLetsThrough(outcome) == outcome = "PermissionError"

\* lines 315-320: the text the pattern is run on
SearchedText(text, collapse_whitespace) ==
    IF collapse_whitespace THEN CollapseWhitespace(text) ELSE text

\* lines 353-369: an entry only when there is a match
\* (a faulty variant: the test of line 353 left out)
AppendAlways(results, f, pattern, running_list) ==
    Append(results, ResultEntry(f, pattern, running_list))
AppendResult(results, f, pattern, running_list) ==
    IF Len(running_list) > 0
    THEN Append(results, ResultEntry(f, pattern, running_list))
    ELSE results

SearchFile ==
    /\ pc = "search"
    /\ search_i <= Len(files_to_inspect)
    /\ LET f == files_to_inspect[search_i]
           outcome == ReadOutcome(fs, f)
           f_str == SearchedText(Content(fs[Resolve(f)]), caller.collapse_whitespace)
       IN  /\ opened' = opened \cup {f}
           /\ IF ReadLetsThrough(outcome)
              THEN /\ pc' = "raised"
                   /\ error' = outcome
                   /\ UNCHANGED <<search_i, all_results, searched>>
              ELSE /\ search_i' = search_i + 1
                   /\ UNCHANGED <<pc, error>>
                   /\ IF outcome = "ok"
                      THEN /\ searched' = searched \cup {<<f, f_str>>}
                           /\ all_results' =
                                  AppendResult(all_results, f, regex_pattern,
                                               Finditer(regex_pattern, f_str))
                      ELSE UNCHANGED <<all_results, searched>>
    /\ UNCHANGED <<world, objects, run, ret_val, previous, locals, lists, path_i,
                   gate_i, pruned, classified, gate_seen, candidates, filtered>>

(***************************************************************************)
(* Summary and return, lines 371-384                                       *)
(***************************************************************************)
\* line 381 divides len(all_results) by len(files_to_inspect)
SummaryError(results, inspected) ==
    IF Len(inspected) = 0 THEN "ZeroDivisionError" ELSE ""

Summary ==
    /\ pc = "search"
    /\ search_i > Len(files_to_inspect)
    /\ LET err == SummaryError(all_results, files_to_inspect)
       IN  IF err # ""
           THEN pc' = "raised" /\ error' = err /\ UNCHANGED ret_val
           ELSE pc' = "returned" /\ ret_val' = all_results /\ UNCHANGED error
    /\ UNCHANGED <<world, objects, run, previous, locals, lists, path_i, gate_i,
                   search_i, all_results, history>>

(***************************************************************************)
(* The surroundings: the caller calls again, another process deletes       *)
(***************************************************************************)
\* The caller invokes main once more with the same argument objects.  The model
\* follows a further call on an unchanged tree.
CallAgain ==
    /\ pc \in {"returned", "raised"}
    /\ run < MaxRuns
    /\ vanished = 0
    /\ run' = run + 1
    /\ previous' = [pc |-> pc, error |-> error, ret_val |-> ret_val]
    /\ pc' = "idle"
    /\ error' = ""
    /\ ret_val' = <<>>
    /\ regex_pattern' = <<>>
    /\ search_paths' = <<>>
    /\ excluded_subdirectories' = <<>>
    /\ included_extensions' = <<>>
    /\ excluded_extensions' = <<>>
    /\ all_files_beneath_paths' = <<>>
    /\ files_to_inspect' = <<>>
    /\ same_list' = FALSE
    /\ path_i' = 1
    /\ gate_i' = 0
    /\ search_i' = 1
    /\ all_results' = <<>>
    /\ pruned' = {}
    /\ classified' = {}
    /\ gate_seen' = <<>>
    /\ opened' = {}
    /\ searched' = {}
    /\ candidates' = <<>>
    /\ filtered' = <<>>
    /\ UNCHANGED <<world, objects>>

\* Another process deletes file n between enumeration and classification or
\* reading.  (A deletion before the walk is a tree without the file.)
Vanish(n) ==
    /\ pc \in {"gate", "search"}
    /\ vanished < MaxVanish
    /\ fs[n] # "absent"
    /\ fs' = [fs EXCEPT ![n] = "absent"]
    /\ vanished' = vanished + 1
    /\ UNCHANGED <<objects, run, pc, error, ret_val, previous, locals, lists,
                   path_i, gate_i, search_i, all_results, history>>

Next ==
    \/ Validate
    \/ WalkPath
    \/ ExtensionFilter
    \/ GateStep
    \/ GateDone
    \/ SearchFile
    \/ Summary
    \/ CallAgain
    \/ \E n \in FileNodes : Vanish(n)

Spec == Init /\ [][Next]_vars

(***************************************************************************)
(* Properties                                                              *)
(***************************************************************************)
\* node n lies beneath directory node d
Beneath(n, d) == Len(d) < Len(n) /\ SubSeq(n, 1, Len(d)) = d
AtOrBeneath(n, d) == n = d \/ Beneath(n, d)

\* the walker has taken every search path, the filter has not run yet
WalkFinished == pc = "walk" /\ path_i > Len(search_paths)

\* the search paths walked so far
Walked == {search_paths[j] : j \in 1..(path_i - 1)}

\* C1 as stated: no candidate lies beneath a directory the walker pruned,
\* whatever the search paths are.
C1_NothingBeneathPruned ==
    \A i \in 1..Len(all_files_beneath_paths) : \A d \in pruned :
        ~Beneath(Resolve(all_files_beneath_paths[i]), Resolve(d))

\* C1 amended: a candidate beneath a pruned directory was not contributed by a
\* walk that pruned that directory: a search path names the file itself, or a
\* directory at or beneath the pruned one, and the candidate is spelled from it.
C1_BeneathPrunedOnlyByOwnSearchPath ==
    \A i \in 1..Len(all_files_beneath_paths) : \A d \in pruned :
        LET c == all_files_beneath_paths[i]
        IN  Beneath(Resolve(c), Resolve(d)) =>
                \E p \in Walked :
                    \/ c = p
                    \/ /\ IsDir(p)
                       /\ AtOrBeneath(Resolve(p), Resolve(d))
                       /\ StartsWith(c, p)

\* C1 witness: the walk of "." pruned ./.git, and the finished list holds a file
\* beneath it that another search path brought in.
C1_Witness ==
    /\ WalkFinished
    /\ \E d \in pruned : \E i \in 1..Len(all_files_beneath_paths) :
           /\ Resolve(d) = DirGit
           /\ Beneath(Resolve(all_files_beneath_paths[i]), DirGit)
    /\ \E n \in FileNodes :
           /\ fs[n] # "absent" /\ ~Beneath(n, DirGit)
           /\ \E i \in 1..Len(all_files_beneath_paths) :
                  Resolve(all_files_beneath_paths[i]) = n

\* C2 as stated: a real file occurs once in the candidate list, however the
\* search paths that reach it are spelled.
C2_EachRealFileOnce ==
    WalkFinished =>
        \A i, j \in 1..Len(all_files_beneath_paths) :
            Resolve(all_files_beneath_paths[i]) = Resolve(all_files_beneath_paths[j])
                => i = j

\* the number of times x occurs in s
Occurrences(s, x) == Cardinality({i \in 1..Len(s) : s[i] = x})

\* C2 amended: the candidate list holds each path string once: every path string
\* a search path yields (the search path itself when it is a file, the joined
\* names of the files below it when it is a directory) occurs exactly one time.
C2_EachPathStringOnce ==
    /\ NoDuplicates(all_files_beneath_paths)
    /\ WalkFinished =>
           \A j \in 1..Len(search_paths) :
               \A c \in Range(WalkOne(fs, <<>>, search_paths[j], excluded_subdirectories)) :
                   Occurrences(all_files_beneath_paths, c) = 1

\* C2 witness: two search paths yield the same path string, and the finished
\* list is not empty.
C2_Witness ==
    /\ WalkFinished
    /\ \E j, k \in 1..Len(search_paths) :
           /\ j # k
           /\ Range(WalkOne(fs, <<>>, search_paths[j], excluded_subdirectories))
                \cap Range(WalkOne(fs, <<>>, search_paths[k], excluded_subdirectories)) # {}

\* the pattern matches somewhere in text
HasMatch(pattern, text) ==
    \E i \in 1..Len(text) : MatchesAt(Literals(pattern), text, i)

\* the file names of the entries of a result list
FileNamesOf(results) == {results[i].file_name : i \in 1..Len(results)}

\* C3: when main returns, a file has an entry exactly when it was read and the
\* pattern matched its text; no entry counts zero matches, every count is the
\* length of matched_strings, and no file name has two entries.
C3_EntryIffReadAndMatched ==
    pc = "returned" =>
        /\ \A f \in Range(files_to_inspect) \cup FileNamesOf(ret_val) :
               f \in FileNamesOf(ret_val)
                   <=> \E r \in searched : r[1] = f /\ HasMatch(regex_pattern, r[2])
        /\ \A i \in 1..Len(ret_val) :
               /\ ret_val[i].match_count # 0
               /\ ret_val[i].match_count = Len(ret_val[i].matched_strings)
        /\ \A i, j \in 1..Len(ret_val) :
               ret_val[i].file_name = ret_val[j].file_name => i = j

\* C3 witness: main returned entries, and left out a file it read without a match
C3_Witness ==
    /\ pc = "returned"
    /\ Len(ret_val) >= 2
    /\ \E r \in searched : r[1] \notin FileNamesOf(ret_val)
    /\ \E f \in Range(files_to_inspect) : \A r \in searched : r[1] # f

\* the first position of x in s
FirstIndex(s, x) == CHOOSE i \in 1..Len(s) : s[i] = x /\ \A j \in 1..(i - 1) : s[j] # x

\* C4: in every entry unique_matched_strings has no duplicates, holds exactly the
\* distinct elements of matched_strings in the order of their first occurrence,
\* and unique_match_count is its length.
C4_UniqueInFirstSeenOrder ==
    \A e \in Range(all_results) \cup Range(ret_val) :
        LET u == e.unique_matched_strings
            m == e.matched_strings
        IN  /\ NoDuplicates(u)
            /\ Range(u) = Range(m)
            /\ \A i, j \in 1..Len(u) :
                   i < j => FirstIndex(m, u[i]) < FirstIndex(m, u[j])
            /\ e.unique_match_count = Len(u)

\* C4 witness: a returned entry whose matches repeat and differ
C4_Witness ==
    /\ pc = "returned"
    /\ \E i \in 1..Len(ret_val) :
           /\ ret_val[i].unique_match_count >= 2
           /\ ret_val[i].match_count > ret_val[i].unique_match_count

\* C5: with include_binary_files False, a file the classifier called binary is
\* neither opened nor in the results nor left in files_to_inspect, and a file it
\* called non-binary stays in files_to_inspect; with include_binary_files True
\* nothing is classified and files_to_inspect stays as the filter left it.
C5_BinaryGate ==
    /\ caller.include_binary_files = FALSE =>
           \A c \in classified :
               /\ c[2] = "binary" =>
                      /\ c[1] \notin opened
                      /\ c[1] \notin FileNamesOf(all_results) \cup FileNamesOf(ret_val)
                      /\ ~In(c[1], files_to_inspect)
               /\ c[2] = "text" => In(c[1], files_to_inspect)
    /\ caller.include_binary_files = TRUE =>
           /\ classified = {}
           /\ files_to_inspect = filtered

\* C5 witness: the gate removed a binary file and kept a text file, and main
\* returned
C5_Witness ==
    /\ pc = "returned"
    /\ caller.include_binary_files = FALSE
    /\ \E c \in classified : c[2] = "binary"
    /\ \E c \in classified : c[2] = "text"

\* (the other half of C5 happens too: a binary file passes with the flag True)
C5_PassThroughReached ==
    /\ pc = "returned"
    /\ caller.include_binary_files = TRUE
    /\ \E f \in Range(files_to_inspect) : LooksBinary(fs[Resolve(f)])

\* the extension filter has run in this call
FilterDone == pc \in {"gate", "search", "returned"} \/ (pc = "raised" /\ error \in {"PermissionError", "ZeroDivisionError"})

\* an extension list as C6 describes its normal form: a "." before the entries
\* that lack one, empty entries dropped
NormalForm(x) ==
    IF x.t # "list" THEN {}
    ELSE {IF StartsWith(e, <<".">>) THEN e ELSE <<".">> \o e : e \in Range(x.v) \ {<<>>}}

LastComponent(f) == LET cs == SplitSep(f, <<>>, <<>>) IN cs[Len(cs)]

\* the extension as C6 describes it: from the last "." of the file name to its
\* end, the "." included, empty if there is none
SuffixFromLastDot(f) ==
    LET b == LastComponent(f)
    IN  IF RFind(b, ".") = 0 THEN <<>> ELSE SubSeq(b, RFind(b, "."), Len(b))

\* the extension as the code takes it: from the last "." of the file name to its
\* end, and empty when nothing but "." comes before that "."
ExtensionOf(f) ==
    LET b == LastComponent(f)
        d == RFind(b, ".")
    IN  IF d = 0 \/ \A k \in 1..(d - 1) : b[k] = "." THEN <<>> ELSE SubSeq(b, d, Len(b))

\* what the filter keeps of the candidates, for a given notion of extension
KeptBySuffix(all, inc, exc) ==
    LET Listed(f) == SuffixFromLastDot(f) \in inc
        NotListed(f) == SuffixFromLastDot(f) \notin exc
    IN  IF inc # {} THEN SelectSeq(all, Listed)
        ELSE IF exc # {} THEN SelectSeq(all, NotListed)
        ELSE all

KeptByExtension(all, inc, exc) ==
    LET Listed(f) == ExtensionOf(f) \in inc
        NotListed(f) == ExtensionOf(f) \notin exc
    IN  IF inc # {} THEN SelectSeq(all, Listed)
        ELSE IF exc # {} THEN SelectSeq(all, NotListed)
        ELSE all

\* C6 as stated: the filter keeps, in candidate order, the candidates whose
\* suffix from the last "." is (include list) or is not (exclude list) in the
\* normalized list.
C6_KeepsBySuffixFromLastDot ==
    FilterDone =>
        filtered = KeptBySuffix(candidates, NormalForm(caller.included_extensions),
                                NormalForm(caller.excluded_extensions))

\* C6 amended: the same with the extension os.path.splitext gives, which is
\* empty for a name that only starts with a "." (".txt", ".gitignore"), and with
\* "non-empty" said of the normalized lists.
C6_KeepsBySplitext ==
    FilterDone =>
        filtered = KeptByExtension(candidates, NormalForm(caller.included_extensions),
                                   NormalForm(caller.excluded_extensions))

\* C6 witness: an include list that needed normalising kept a candidate and
\* dropped the dot-file whose whole name is a listed extension
C6_Witness ==
    /\ FilterDone
    /\ caller.included_extensions.t = "list"
    /\ caller.included_extensions.v # included_extensions
    /\ filtered # <<>>
    /\ \E i \in 1..Len(candidates) :
           /\ LastComponent(candidates[i]) \in NormalForm(caller.included_extensions)
           /\ ~In(candidates[i], filtered)

\* the three construction-time failures C7 names, read off the arguments and
\* the tree
BothExtensionLists(a) ==
    /\ a.included_extensions.t = "list" /\ a.included_extensions.v # <<>>
    /\ a.excluded_extensions.t = "list" /\ a.excluded_extensions.v # <<>>

BadPattern(a) ==
    \/ a.regex_pattern = <<>>
    \/ a.escape_pattern = FALSE /\ "(" \in Range(a.regex_pattern)

MissingSearchPath(a, tree) ==
    /\ a.search_paths.t = "list"
    /\ \E p \in Range(a.search_paths.v) :
           LET n == Resolve(Expanduser(p))
           IN  n \notin DirNodes /\ (n \notin FileNodes \/ tree[n] = "absent")

ConstructionFailure(a, tree) ==
    BothExtensionLists(a) \/ BadPattern(a) \/ MissingSearchPath(a, tree)

\* C7: a call with a construction-time failure raises before any traversal,
\* classification or read, and returns nothing.  (While nothing has vanished the
\* tree is the one validation saw.)
C7_ConstructionFailuresAbortFirst ==
    (vanished = 0 /\ ConstructionFailure(caller, fs)) =>
        /\ pc \in {"idle", "raised"}
        /\ pc = "raised" => error \in {"ValueError", "re.error", "FileNotFoundError"}
        /\ path_i = 1
        /\ all_files_beneath_paths = <<>>
        /\ pruned = {} /\ classified = {} /\ opened = {} /\ searched = {}
        /\ ret_val = <<>>

\* C7 witness: a call with a missing search path has raised
C7_Witness ==
    /\ pc = "raised"
    /\ MissingSearchPath(caller, fs)
    /\ ~BothExtensionLists(caller) /\ ~BadPattern(caller)

\* (the other two failures are reached as well)
C7_OtherFailuresReached ==
    /\ pc = "raised"
    /\ \/ BothExtensionLists(caller) /\ ~BadPattern(caller)
       \/ BadPattern(caller) /\ caller.regex_pattern # <<>>

\* C8 as stated: when no file is left to inspect, main still returns, and returns
\* an empty list.
C8_NothingToInspectReturnsEmpty ==
    (pc \in {"returned", "raised"} /\ FilterDone /\ error # "PermissionError"
        /\ Len(files_to_inspect) = 0)
    => (pc = "returned" /\ ret_val = <<>>)

\* C9 as stated: a failure on one file never leaves main; here, for the failures
\* of the classifier: main does not raise what is_binary raised.
C9_ClassifierFailureNeverAborts ==
    pc = "raised" => \A c \in classified : c[2] # error

\* (the per-file failures the code does contain: a file that vanished before it
\* was classified or read, or that does not decode, and main returned)
C9_ContainedFailuresReached ==
    /\ pc = "returned"
    /\ \/ \E c \in classified : c[2] = "FileNotFoundError"
       \/ \E f \in opened : fs[Resolve(f)] = "absent"
       \/ \E f \in opened : Undecodable(fs[Resolve(f)])

\* C10: a second call with the same arguments on an unchanged tree ends as the
\* first did, with the same result list; the caller's argument lists and the
\* default list of excluded_subdirectories have the values they started with.
C10_SecondRunSame ==
    /\ caller = given
    /\ default_excluded_subdirectories = <<<<".", "git">>, <<".", "idea">>>>
    /\ (run >= 2 /\ pc \in {"returned", "raised"} /\ vanished = 0) =>
           previous = [pc |-> pc, error |-> error, ret_val |-> ret_val]

\* C10 witness: a second call that relied on the default excluded_subdirectories
\* and on an extension list that had to be normalised returned results
C10_Witness ==
    /\ run = 2
    /\ pc = "returned"
    /\ Len(ret_val) >= 1
    /\ caller.excluded_subdirectories.t = "default"
    /\ caller.included_extensions.t = "list"
    /\ caller.included_extensions.v # included_extensions

\* the positions of text that start a maximal run of whitespace, or hold no
\* whitespace
RunStarts(text) ==
    {i \in 1..Len(text) : ~IsSpace(text[i]) \/ i = 1 \/ ~IsSpace(text[i - 1])}

\* text with one space put for every maximal run of whitespace
OneSpacePerRun(text) ==
    LET P == RunStarts(text)
        Nth(k) == CHOOSE i \in P : Cardinality({j \in P : j <= i}) = k
    IN  [k \in 1..Cardinality(P) |-> IF IsSpace(text[Nth(k)]) THEN " " ELSE text[Nth(k)]]

\* the entries of a result list for file name f
EntriesFor(results, f) == {i \in 1..Len(results) : results[i].file_name = f}

\* the pattern "foo bar", as given or escaped
FooBar(pattern) == Literals(pattern) = <<"foo", " ", "bar">>

\* C11: when collapse_whitespace is true, the text the pattern is run on is the
\* file's content with one space for every maximal run of whitespace: it has no
\* newline and no two adjacent whitespace symbols, every matched string is taken
\* from it, and the content "foo", two newlines, two spaces, "bar" gives exactly
\* one match for the pattern "foo bar".
C11_MatchesCollapsedContent ==
    caller.collapse_whitespace = TRUE =>
        /\ \A r \in searched :
               /\ \A i \in 1..Len(r[2]) : r[2][i] # "\n"
               /\ \A i \in 1..(Len(r[2]) - 1) : ~(IsSpace(r[2][i]) /\ IsSpace(r[2][i + 1]))
               /\ fs[Resolve(r[1])] # "absent" =>
                      r[2] = OneSpacePerRun(Content(fs[Resolve(r[1])]))
               /\ \A i \in EntriesFor(all_results, r[1]) :
                      /\ all_results[i].matched_strings # <<>>
                      /\ \A m \in Range(all_results[i].matched_strings) :
                             \E k \in 1..Len(r[2]) : SubSeq(r[2], k, k + Len(m) - 1) = m
        /\ \A r \in searched :
               (fs[Resolve(r[1])] = "foobar" /\ FooBar(regex_pattern)) =>
                   /\ r[2] = <<"foo", " ", "bar">>
                   /\ \E i \in EntriesFor(all_results, r[1]) :
                          /\ all_results[i].match_count = 1
                          /\ all_results[i].matched_strings = <<<<"foo", " ", "bar">>>>

\* C11 witness: main returned the one match of "foo bar" in the file whose
\* content is "foo", two newlines, two spaces, "bar"
C11_Witness ==
    /\ pc = "returned"
    /\ caller.collapse_whitespace = TRUE
    /\ FooBar(regex_pattern)
    /\ \E i \in 1..Len(ret_val) :
           /\ fs[Resolve(ret_val[i].file_name)] = "foobar"
           /\ ret_val[i].match_count = 1

\* (without the collapse the same file gives no match)
C11_RawContentNoMatch ==
    /\ pc = "returned"
    /\ caller.collapse_whitespace = FALSE
    /\ FooBar(regex_pattern)
    /\ \E r \in searched :
           fs[Resolve(r[1])] = "foobar" /\ EntriesFor(ret_val, r[1]) = {}

\* a is b with some elements left out
RECURSIVE IsSubsequence(_, _)
IsSubsequence(a, b) ==
    IF a = <<>> THEN TRUE
    ELSE IF b = <<>> THEN FALSE
    ELSE IF Head(a) = Head(b) THEN IsSubsequence(Tail(a), Tail(b))
    ELSE IsSubsequence(a, Tail(b))

\* the file_name values of a result list, in its order
FileNameSeq(results) == [i \in 1..Len(results) |-> results[i].file_name]

Reversed(s) == [i \in 1..Len(s) |-> s[Len(s) + 1 - i]]

\* the first search path that yields candidate c
FirstPath(c) ==
    CHOOSE j \in 1..Len(search_paths) :
        /\ In(c, WalkOne(fs, <<>>, search_paths[j], excluded_subdirectories))
        /\ \A k \in 1..(j - 1) :
               ~In(c, WalkOne(fs, <<>>, search_paths[k], excluded_subdirectories))

\* the gate of this call ran to its end
GateFinished ==
    /\ caller.include_binary_files = FALSE
    /\ pc \in {"search", "returned"} \/ (pc = "raised" /\ error = "ZeroDivisionError")

\* C12: the file names of the results are, in order, a subsequence of the list
\* the search loop went through, which is a subsequence of what the extension
\* filter left, which is a subsequence of the walker's candidate list; the
\* candidates come in the order of the search paths that first yield them; the
\* gate calls the classifier at most once per file, and when it has run to its
\* end it has called it exactly once on every file the filter left, and what it
\* leaves are the files called non-binary, in their order.
C12_ResultsInDiscoveryOrder ==
    /\ IsSubsequence(FileNameSeq(all_results), files_to_inspect)
    /\ IsSubsequence(FileNameSeq(ret_val), files_to_inspect)
    /\ IsSubsequence(files_to_inspect, filtered)
    /\ IsSubsequence(filtered, candidates)
    /\ WalkFinished =>
           \A i, k \in 1..Len(all_files_beneath_paths) :
               i < k => FirstPath(all_files_beneath_paths[i])
                            <= FirstPath(all_files_beneath_paths[k])
    /\ NoDuplicates(gate_seen)
    /\ GateFinished =>
           /\ gate_seen = Reversed(filtered)
           /\ LET Survives(f) == <<f, "text">> \in classified
              IN  files_to_inspect = SelectSeq(filtered, Survives)

\* C12 witness: the candidates came from two search paths, the gate removed a
\* file that stood before two survivors, and main returned two entries
C12_Witness ==
    /\ pc = "returned"
    /\ GateFinished
    /\ Len(ret_val) >= 2
    /\ \E i \in 1..Len(filtered) :
           /\ ~In(filtered[i], files_to_inspect)
           /\ i + 2 <= Len(filtered)
           /\ In(filtered[i + 1], files_to_inspect)
           /\ In(filtered[i + 2], files_to_inspect)

\* (candidates of a second search path follow those of the first)
C12_TwoPathsReached ==
    /\ pc = "returned"
    /\ vanished = 0
    /\ Len(ret_val) >= 2
    /\ FirstPath(ret_val[1].file_name) = 1
    /\ FirstPath(ret_val[Len(ret_val)].file_name) = 2

\* a list-like argument was supplied, not as None, as something that is neither
\* a list nor a tuple
NonListSupplied(a) ==
    \E x \in {a.search_paths, a.excluded_subdirectories,
              a.excluded_extensions, a.included_extensions} : x.t = "str"

\* a flag was supplied, not as None, as something that is not a bool
NonBoolSupplied(a) == a.print_json.t = "str"

\* nothing of the tree has been walked, classified or read in this call
NoTraversalYet ==
    /\ path_i = 1
    /\ all_files_beneath_paths = <<>>
    /\ pruned = {} /\ classified = {} /\ opened = {} /\ searched = {}
    /\ ret_val = <<>>

\* C13 as stated: a call that supplies a non-list for a list-like argument, or a
\* non-bool for a flag, raises TypeError before any traversal.
C13_MalformedArgumentsRaiseTypeError ==
    (NonListSupplied(caller) \/ NonBoolSupplied(caller)) =>
        /\ pc \in {"idle", "raised"}
        /\ pc = "raised" => error = "TypeError"
        /\ NoTraversalYet

\* (what the code does reject: a value that is the name of a parameter)
C13_NameValueRejected ==
    /\ pc = "raised"
    /\ error = "TypeError"
    /\ NoTraversalYet
    /\ NonListSupplied(caller) \/ NonBoolSupplied(caller)

\* (a str for search_paths went through validation and was walked, and main
\* returned; so did a str for print_json)
C13_StrSearchPathWalked ==
    /\ pc = "returned"
    /\ caller.search_paths.t = "str"
    /\ Len(ret_val) >= 1

C13_StrFlagAccepted ==
    /\ pc = "returned"
    /\ caller.print_json.t = "str"
    /\ ~NonListSupplied(caller)

====
